---- MODULE Spec2Model ----
(***************************************************************************)
(* Model of the scanner backend: the /process-scan request handler in its  *)
(* three variants (server.js: ML -> Hough -> fallback crop; part_000:      *)
(* contour search with fallback crop; part_001: largest contour only), the *)
(* two orderPoints implementations and the fallback crop rectangle.        *)
(*                                                                         *)
(* Points are pairs <<x, y>> of integers in image coordinates (y grows     *)
(* downwards).  JavaScript's Array.prototype.sort is stable, so every sort *)
(* below is a stable insertion sort on the comparator of the source.       *)
(***************************************************************************)
EXTENDS Integers, Sequences, FiniteSets, TLC

\* ------------------------------------------------------------------ bounds
\* Largest coordinate of the points whose ordering is explored.
GridMax == 2
\* Largest image width/height explored by the fallback crop.
MaxDim == 40
\* Files per request, contours per image, Hough lines.
MaxFiles == 2
MaxContours == 11
MaxLines == 4

\* ---------------------------------------------------------------- geometry
Coords == 0..GridMax
Points == Coords \X Coords

\* Stable insertion of x into s, ascending by x[1] + x[2]
\* (summed.sort((a, b) => a.sum - b.sum)).
RECURSIVE InsertBySum(_, _)
InsertBySum(s, x) ==
  IF s = << >> THEN << x >>
  ELSE LET last == s[Len(s)]
       IN IF x[1] + x[2] < last[1] + last[2]
          THEN Append(InsertBySum(SubSeq(s, 1, Len(s) - 1), x), last)
          ELSE Append(s, x)

RECURSIVE SortBySum(_)
SortBySum(s) ==
  IF s = << >> THEN << >>
  ELSE InsertBySum(SortBySum(SubSeq(s, 1, Len(s) - 1)), s[Len(s)])

\* Stable insertion of x into s, ascending by x[2] - x[1]
\* (diffed.sort((a, b) => a.diff - b.diff)).
RECURSIVE InsertByDiff(_, _)
InsertByDiff(s, x) ==
  IF s = << >> THEN << x >>
  ELSE LET last == s[Len(s)]
       IN IF x[2] - x[1] < last[2] - last[1]
          THEN Append(InsertByDiff(SubSeq(s, 1, Len(s) - 1), x), last)
          ELSE Append(s, x)

RECURSIVE SortByDiff(_)
SortByDiff(s) ==
  IF s = << >> THEN << >>
  ELSE InsertByDiff(SortByDiff(SubSeq(s, 1, Len(s) - 1)), s[Len(s)])

\* orderPoints of server.js (sum/difference method):
\*   return [tl, diffed[1].p, br, diffed[0].p]   (0-based indices).
orderPoints(pts) ==
  LET summed == SortBySum(pts)
      tl == summed[1]
      br == summed[4]
      diffed == SortByDiff(<< summed[2], summed[3] >>)
  IN << tl, diffed[2], br, diffed[1] >>

\* Math.atan2(dy, dx) compared exactly.  The centroid is (Sx/4, Sy/4); the
\* vector from the centroid to pt is taken four times as long, which keeps
\* it integral and leaves its angle unchanged.
\* AngleClass: 0 for angles in (-pi, 0), 1 for angle 0 (atan2(0, 0) = 0 too),
\* 2 for angles in (0, pi), 3 for angle pi.
AngleClass(v) ==
  IF v[2] < 0 THEN 0
  ELSE IF v[2] > 0 THEN 2
  ELSE IF v[1] >= 0 THEN 1 ELSE 3

\* atan2(a) < atan2(b)
AngleLess(a, b) ==
  IF AngleClass(a) # AngleClass(b) THEN AngleClass(a) < AngleClass(b)
  ELSE /\ AngleClass(a) \in {0, 2}
       /\ a[1] * b[2] - a[2] * b[1] > 0

SumX(pts) == pts[1][1] + pts[2][1] + pts[3][1] + pts[4][1]
SumY(pts) == pts[1][2] + pts[2][2] + pts[3][2] + pts[4][2]

\* 4 * (pt - centroid)
FromCenter(pts, pt) == << 4 * pt[1] - SumX(pts), 4 * pt[2] - SumY(pts) >>

\* Stable insertion by angle around the centroid of all
\* (.sort((a, b) => a.angle - b.angle)).
RECURSIVE InsertByAngle(_, _, _)
InsertByAngle(all, s, x) ==
  IF s = << >> THEN << x >>
  ELSE LET last == s[Len(s)]
       IN IF AngleLess(FromCenter(all, x), FromCenter(all, last))
          THEN Append(InsertByAngle(all, SubSeq(s, 1, Len(s) - 1), x), last)
          ELSE Append(s, x)

RECURSIVE SortByAngle(_, _)
SortByAngle(all, s) ==
  IF s = << >> THEN << >>
  ELSE InsertByAngle(all, SortByAngle(all, SubSeq(s, 1, Len(s) - 1)), s[Len(s)])

\* The first index of the smallest x + y (the loop uses a strict <).
TlIndex(sorted) ==
  CHOOSE i \in 1..4 :
    /\ \A j \in 1..4 : sorted[i][1] + sorted[i][2] <= sorted[j][1] + sorted[j][2]
    /\ \A j \in 1..(i - 1) : sorted[j][1] + sorted[j][2] > sorted[i][1] + sorted[i][2]

\* orderPoints of part_000 (centroid-angle method).
orderPointsCentroid(pts) ==
  LET sortedByAngle == SortByAngle(pts, pts)
      tlIndex == TlIndex(sortedByAngle)
  IN [i \in 1..4 |-> sortedByAngle[((tlIndex - 1 + (i - 1)) % 4) + 1]]

\* ------------------------------------------------------ line intersections
\* A line is a segment << x, y, z, w >> from (x, y) to (z, w), as
\* houghLinesP returns it.  The segments explored are axis-aligned or
\* diagonal, so every quotient below is exact.
Abs(n) == IF n < 0 THEN -n ELSE n

\* Math.abs(angle) < 10 || Math.abs(angle) > 170, with
\* angle = atan2(w - y, z - x) in degrees: |dy| < tan(10 deg) * |dx|.
IsHorizontal(l) == Abs(l[4] - l[2]) * 1000000 < 176327 * Abs(l[3] - l[1])

\* Math.abs(Math.abs(angle) - 90) < 10: |dx| < tan(10 deg) * |dy|.
IsVertical(l) == Abs(l[3] - l[1]) * 1000000 < 176327 * Abs(l[4] - l[2])

\* Stable insertion of l into s, ascending by sign * l[k].
RECURSIVE InsertLine(_, _, _, _)
InsertLine(s, l, k, sign) ==
  IF s = << >> THEN << l >>
  ELSE LET last == s[Len(s)]
       IN IF sign * l[k] < sign * last[k]
          THEN Append(InsertLine(SubSeq(s, 1, Len(s) - 1), l, k, sign), last)
          ELSE Append(s, l)

RECURSIVE SortLines(_, _, _)
SortLines(s, k, sign) ==
  IF s = << >> THEN << >>
  ELSE InsertLine(SortLines(SubSeq(s, 1, Len(s) - 1), k, sign), s[Len(s)], k, sign)

\* for (const line of lines): horizontal.push(line), else vertical.push(line).
Horizontals(s) ==
  LET F[n \in 0..Len(s)] ==
        IF n = 0 THEN << >>
        ELSE IF IsHorizontal(s[n]) THEN Append(F[n - 1], s[n]) ELSE F[n - 1]
  IN F[Len(s)]

Verticals(s) ==
  LET F[n \in 0..Len(s)] ==
        IF n = 0 THEN << >>
        ELSE IF ~IsHorizontal(s[n]) /\ IsVertical(s[n])
             THEN Append(F[n - 1], s[n]) ELSE F[n - 1]
  IN F[Len(s)]

\* corners.filter(c => c !== null)
NonNull(s) ==
  LET F[n \in 0..Len(s)] ==
        IF n = 0 THEN << >>
        ELSE IF s[n] # << >> THEN Append(F[n - 1], s[n]) ELSE F[n - 1]
  IN F[Len(s)]

\* intersectLines: << >> stands for null.
intersectLines(line1, line2) ==
  LET x1 == line1[1]  y1 == line1[2]  x2 == line1[3]  y2 == line1[4]
      x3 == line2[1]  y3 == line2[2]  x4 == line2[3]  y4 == line2[4]
      denom == (x1 - x2) * (y3 - y4) - (y1 - y2) * (x3 - x4)
  IN IF denom = 0 THEN << >>
     ELSE << ((x1 * y2 - y1 * x2) * (x3 - x4) - (x1 - x2) * (x3 * y4 - y3 * x4))
               \div denom,
             ((x1 * y2 - y1 * x2) * (y3 - y4) - (y1 - y2) * (x3 * y4 - y3 * x4))
               \div denom >>

\* detectDocumentHough, from the lines houghLinesP found: << >> stands for
\* null, otherwise the non-null intersections in the order top-left,
\* top-right, bottom-right, bottom-left.  The sorts are in place: the second
\* sort of each array starts from the order the first one left.
detectDocumentHough(lines) ==
  IF Len(lines) < 4 THEN << >>
  ELSE
    LET horizontal == Horizontals(lines)
        vertical == Verticals(lines)
    IN IF Len(horizontal) < 2 \/ Len(vertical) < 2 THEN << >>
       ELSE
         LET hByY == SortLines(horizontal, 2, 1)
             top == hByY[1]
             bottom == SortLines(hByY, 4, -1)[1]
             vByX == SortLines(vertical, 1, 1)
             left == vByX[1]
             right == SortLines(vByX, 3, -1)[1]
             corners == << intersectLines(top, left), intersectLines(top, right),
                           intersectLines(bottom, right), intersectLines(bottom, left) >>
         IN NonNull(corners)

\* The segments houghLinesP may report: two pieces of the top edge, the
\* bottom, left and right edges, and a diagonal.
Segments ==
  { << 0, 0, GridMax, 0 >>, << 1, 0, GridMax, 0 >>, << 0, GridMax, GridMax, GridMax >>,
    << 0, 0, 0, GridMax >>, << GridMax, 0, GridMax, GridMax >>,
    << 0, 0, GridMax, GridMax >> }

\* The sequences of at most n distinct elements of S.
RECURSIVE SeqsOfDistinct(_, _)
SeqsOfDistinct(S, n) ==
  IF n = 0 THEN {<< >>}
  ELSE LET shorter == SeqsOfDistinct(S, n - 1)
       IN shorter \cup
          {Append(q[1], q[2]) :
             q \in {t \in shorter \X S :
                      Len(t[1]) = n - 1 /\ \A i \in 1..Len(t[1]) : t[1][i] # t[2]}}

HoughInputs == SeqsOfDistinct(Segments, MaxLines)

\* What detectDocumentHough returns over all these inputs.
HoughOutcomes == {detectDocumentHough(lines) : lines \in HoughInputs}

\* ------------------------------------------------------------- predicates
Collinear(a, b, c) ==
  (b[1] - a[1]) * (c[2] - a[2]) - (b[2] - a[2]) * (c[1] - a[1]) = 0

PointSet(pts) == {pts[i] : i \in 1..Len(pts)}

\* Four distinct points, no three of them collinear.
NonDegenerate(pts) ==
  /\ Cardinality(PointSet(pts)) = 4
  /\ \A i, j, k \in 1..4 :
       (i < j /\ j < k) => ~Collinear(pts[i], pts[j], pts[k])

\* The corners of an axis-aligned rectangle of positive width and height.
IsRect(pts) ==
  \E x0, x1, y0, y1 \in Coords :
    /\ x0 < x1 /\ y0 < y1
    /\ PointSet(pts) = {<< x0, y0 >>, << x1, y0 >>, << x1, y1 >>, << x0, y1 >>}

MinX(pts) == CHOOSE x \in Coords : (\E p \in PointSet(pts) : p[1] = x)
                                   /\ \A p \in PointSet(pts) : p[1] >= x
MaxX(pts) == CHOOSE x \in Coords : (\E p \in PointSet(pts) : p[1] = x)
                                   /\ \A p \in PointSet(pts) : p[1] <= x
MinY(pts) == CHOOSE y \in Coords : (\E p \in PointSet(pts) : p[2] = y)
                                   /\ \A p \in PointSet(pts) : p[2] >= y
MaxY(pts) == CHOOSE y \in Coords : (\E p \in PointSet(pts) : p[2] = y)
                                   /\ \A p \in PointSet(pts) : p[2] <= y

\* [top-left, top-right, bottom-right, bottom-left] of a rectangle: the order
\* of the destination corners (0,0), (W-1,0), (W-1,H-1), (0,H-1).
RoleOrder(pts) ==
  << << MinX(pts), MinY(pts) >>, << MaxX(pts), MinY(pts) >>,
     << MaxX(pts), MaxY(pts) >>, << MinX(pts), MaxY(pts) >> >>

\* ------------------------------------------------------------------- state
VARIABLES
  pts,        \* a set of four points, in a canonical array order
  permuted,   \* the same four points in the order orderPoints receives
  bySum,      \* << orderPoints(pts), orderPoints(permuted) >> once computed
  byAngle,    \* the same pair for the centroid-angle orderPoints
  cropArgs,   \* [cols, rows, pct]: an image size and a crop fraction in percent
  region1,    \* the fallback crop rectangle of that image
  region2,    \* the fallback crop rectangle of the cropped image
  variant,    \* which handler is deployed: "server", "contour" or "largest"
  cornerModel,    \* the module-level detection model of server.js
  nfiles,     \* req.files.length of each request
  pc,         \* where each request's handler is suspended
  fileIndex,  \* the index (from 1) of the file each handler is working on
  img,        \* the decoded image of that file
  tried,      \* the strategies tried on it so far, with what each returned
  processedImage,  \* the image produced for it
  pdfDoc,     \* each request's document: the pages added so far
  res,        \* each request's response
  running,    \* the request inside the contour search, 0 when none is
  search      \* the locals of the contour search of part_000

orderVars == << pts, permuted, bySum, byAngle >>
cropVars == << cropArgs, region1, region2 >>
handlerVars == << variant, cornerModel, nfiles, pc, fileIndex, img, tried,
                  processedImage, pdfDoc, res, running, search >>
vars == << orderVars, cropVars, handlerVars >>

\* The values the ordering variables keep while another part is explored.
OrderIdle == pts = << >> /\ permuted = << >> /\ bySum = << >> /\ byAngle = << >>
NoRegion == [x |-> 0, y |-> 0, w |-> -1, h |-> -1]
CropIdle ==
  /\ cropArgs = [cols |-> 0, rows |-> 0, pct |-> 0]
  /\ region1 = NoRegion
  /\ region2 = NoRegion

\* Two requests, which may be in flight at the same time.
Requests == {1, 2}

\* cornerModel = null
NullModel == "null"
\* cv.imdecode threw / returned an empty Mat / no image at hand.
Thrown == [cols |-> -1, rows |-> -1]
EmptyMat == [cols |-> 0, rows |-> 0]
NoImage ==
  [kind |-> "none", method |-> "none", corners |-> << >>, quad |-> << >>,
   rect |-> NoRegion, xformFailed |-> FALSE]
NoResponse == [status |-> 0, error |-> "none"]
NoSearch ==
  [i |-> 0, eps |-> 0, area |-> 0, transformed |-> FALSE,
   fourBefore |-> FALSE, accepted |-> << >>, firstOk |-> << >>]

HandlerIdle ==
  /\ variant = "none"
  /\ cornerModel = NullModel
  /\ nfiles = [r \in Requests |-> 0]
  /\ pc = [r \in Requests |-> "done"]
  /\ fileIndex = [r \in Requests |-> 0]
  /\ img = [r \in Requests |-> EmptyMat]
  /\ tried = [r \in Requests |-> << >>]
  /\ processedImage = [r \in Requests |-> NoImage]
  /\ pdfDoc = [r \in Requests |-> << >>]
  /\ res = [r \in Requests |-> NoResponse]
  /\ running = 0
  /\ search = NoSearch

\* ------------------------------------------------- ordering of four points
\* Strictly increasing (lexicographic) arrays: one per set of four points.
LexLess(a, b) == a[1] < b[1] \/ (a[1] = b[1] /\ a[2] < b[2])

CanonicalQuads ==
  {q \in [1..4 -> Points] : \A i \in 1..3 : LexLess(q[i], q[i + 1])}

Swap(s, i, j) ==
  [k \in 1..4 |-> IF k = i THEN s[j] ELSE IF k = j THEN s[i] ELSE s[k]]

InitOrder ==
  /\ pts \in CanonicalQuads
  /\ permuted = pts
  /\ bySum = << >>
  /\ byAngle = << >>
  /\ CropIdle
  /\ HandlerIdle

\* The caller hands the same points over in another array order.
Permute ==
  /\ bySum = << >> /\ byAngle = << >>
  /\ \E i, j \in 1..4 : i < j /\ permuted' = Swap(permuted, i, j)
  /\ UNCHANGED << pts, bySum, byAngle, cropVars, handlerVars >>

OrderSumDiff ==
  /\ bySum = << >>
  /\ bySum' = << orderPoints(pts), orderPoints(permuted) >>
  /\ UNCHANGED << pts, permuted, byAngle, cropVars, handlerVars >>

OrderCentroid ==
  /\ byAngle = << >>
  /\ byAngle' = << orderPointsCentroid(pts), orderPointsCentroid(permuted) >>
  /\ UNCHANGED << pts, permuted, bySum, cropVars, handlerVars >>

NextOrder == Permute \/ OrderSumDiff \/ OrderCentroid

SpecOrder == InitOrder /\ [][NextOrder]_vars

\* C1: for the corners of an axis-aligned rectangle, in any input order,
\* both orderPoints implementations return [top-left, top-right,
\* bottom-right, bottom-left].
C1_RectRoleOrder ==
  IsRect(permuted) =>
    /\ (bySum # << >> => bySum[2] = RoleOrder(permuted))
    /\ (byAngle # << >> => byAngle[2] = RoleOrder(permuted))

\* The centroid-angle half of C1 alone.
C1_RectRoleOrderCentroid ==
  (IsRect(permuted) /\ byAngle # << >>) => byAngle[2] = RoleOrder(permuted)

\* What the sum/difference orderPoints returns for a rectangle: the
\* top-right and bottom-left slots exchanged.
C1_SumDiffSwapsSlots ==
  (IsRect(permuted) /\ bySum # << >>) =>
    bySum[2] = << RoleOrder(permuted)[1], RoleOrder(permuted)[4],
                  RoleOrder(permuted)[3], RoleOrder(permuted)[2] >>

\* C2: for a non-degenerate quad the result of each orderPoints is the same
\* for every permutation of the input array.
C2_PermutationInvariant ==
  NonDegenerate(pts) =>
    /\ (bySum # << >> => bySum[1] = bySum[2])
    /\ (byAngle # << >> => byAngle[1] = byAngle[2])

\* The two halves of C2, one per implementation.
C2_SumDiffInvariant ==
  (NonDegenerate(pts) /\ bySum # << >>) => bySum[1] = bySum[2]

C2_CentroidInvariant ==
  (NonDegenerate(pts) /\ byAngle # << >>) => byAngle[1] = byAngle[2]

\* ------------------------------------------------------------ fallback crop
\* The crop fractions, in percent: crop = 0.05 (server.js) and
\* cropPercent = 0.10 (part_000).
CropPercentServer == 5
CropPercentContour == 10

\* x = Math.floor(img.cols * crop), y = Math.floor(img.rows * crop),
\* w = Math.floor(img.cols * (1 - 2 * crop)), h = Math.floor(img.rows * (1 - 2 * crop)).
\* For crop = 0.05 and 0.10 and every size up to 200000 the floor of the
\* double product equals the integer quotient used here.
FallbackCrop(cols, rows, pct) ==
  [x |-> (cols * pct) \div 100,
   y |-> (rows * pct) \div 100,
   w |-> (cols * (100 - 2 * pct)) \div 100,
   h |-> (rows * (100 - 2 * pct)) \div 100]

\* img.getRegion(new cv.Rect(x, y, w, h)) followed by cv.imencode yields an
\* image only for a rectangle of positive area inside the image.
RegionOk(r, cols, rows) ==
  /\ r.w >= 1 /\ r.h >= 1
  /\ r.x >= 0 /\ r.y >= 0
  /\ r.x + r.w <= cols /\ r.y + r.h <= rows

InitCrop ==
  /\ cropArgs \in [cols : 1..MaxDim, rows : 1..MaxDim,
                   pct : {CropPercentServer, CropPercentContour}]
  /\ region1 = NoRegion
  /\ region2 = NoRegion
  /\ OrderIdle
  /\ HandlerIdle

Crop ==
  /\ region1 = NoRegion
  /\ region1' = FallbackCrop(cropArgs.cols, cropArgs.rows, cropArgs.pct)
  /\ UNCHANGED << cropArgs, region2, orderVars, handlerVars >>

\* The crop applied to its own output, an image of region1.w by region1.h.
CropAgain ==
  /\ region1 # NoRegion /\ region2 = NoRegion
  /\ RegionOk(region1, cropArgs.cols, cropArgs.rows)
  /\ region2' = FallbackCrop(region1.w, region1.h, cropArgs.pct)
  /\ UNCHANGED << cropArgs, region1, orderVars, handlerVars >>

NextCrop == Crop \/ CropAgain

SpecCrop == InitCrop /\ [][NextCrop]_vars

\* C8 as stated: for every image with cols >= 1 and rows >= 1 the crop
\* rectangle has w >= 1 and h >= 1 and lies inside the image, and the crop of
\* the cropped image again succeeds.
C8_CropNeverFails ==
  /\ region1 # NoRegion => RegionOk(region1, cropArgs.cols, cropArgs.rows)
  /\ region2 # NoRegion => RegionOk(region2, region1.w, region1.h)

\* Where the crop does succeed: for cols >= 2 and rows >= 2 the rectangle has
\* w >= 1 and
\* h >= 1 and lies inside the image; for cols >= 3 and rows >= 3 the crop of
\* the cropped image succeeds as well and is a strictly smaller region
\* contained in the previous one.
C8_CropOfLargerImages ==
  /\ (region1 # NoRegion /\ cropArgs.cols >= 2 /\ cropArgs.rows >= 2) =>
       RegionOk(region1, cropArgs.cols, cropArgs.rows)
  /\ (region1 # NoRegion /\ cropArgs.cols >= 3 /\ cropArgs.rows >= 3) =>
       (region1.w >= 2 /\ region1.h >= 2)
  /\ (region2 # NoRegion /\ cropArgs.cols >= 3 /\ cropArgs.rows >= 3) =>
       /\ RegionOk(region2, region1.w, region1.h)
       /\ region2.w < region1.w /\ region2.h < region1.h
       /\ region1.x + region2.x >= region1.x
       /\ region1.x + region2.x + region2.w <= region1.x + region1.w
       /\ region1.y + region2.y + region2.h <= region1.y + region1.h

\* A 3 x 3 image cropped twice.
CropTwiceReached ==
  /\ region2 # NoRegion
  /\ cropArgs.cols = 3 /\ cropArgs.rows = 3
  /\ region2.w = 1 /\ region2.h = 1

\* The smallest images: the crop rectangle of a 1-pixel-wide image is empty.
C8_OnePixelEmpty ==
  (region1 # NoRegion /\ cropArgs.cols = 1) => region1.w = 0

\* ------------------------------------------------------------ /process-scan
\* Math.min(10, sortedContours.length) candidates, the steps of
\* for (epsilonFactor = 0.01; epsilonFactor <= 0.08; epsilonFactor += 0.01)
\* (eight in double arithmetic), and areaPercent < 15.
TopK == 10
EpsSteps == 8
AreaMin == 15

Images == {[cols |-> 1, rows |-> 1], [cols |-> MaxDim, rows |-> MaxDim]}
\* What cv.imdecode(file.buffer) gives: an image, or for an unreadable
\* buffer an exception or an empty Mat, on which the first filter throws.
DecodeOutcomes == {Thrown, EmptyMat} \cup Images
\* An image one pixel wide or high holds no line and no contour of any area.
Tiny(image) == image.cols <= 1 \/ image.rows <= 1

\* Corner arrays a detector may report: a rectangle, starting at its
\* bottom-right corner, and a quad with three collinear points.
SrcQuads ==
  { << << GridMax, GridMax >>, << 0, GridMax >>, << 0, 0 >>, << GridMax, 0 >> >>,
    << << 0, 0 >>, << 1, 0 >>, << GridMax, 0 >>, << 1, GridMax >> >> }
MLPredictions == {<< >>} \cup SrcQuads
\* Contour areas in percent of the working image, and vertex counts of
\* approxPolyDP.
AreaPercents == {14, 15, 60, 99}
VertexCounts == {3, 4, 5}

Min(a, b) == IF a < b THEN a ELSE b

\* loadModel: the assignment to cornerModel is commented out.
loadModel(model) == model

\* tf.node.decodeImage(imageBuffer) lies behind if (!cornerModel) return null.
DecodesImage(model) == model # NullModel

\* A detectCornersML without the guard on cornerModel.
detectCornersMLUnguarded(model, prediction) == prediction

\* detectCornersML: << >> stands for null.  Past the guard every exception
\* is caught and null returned, so the call never raises.
detectCornersML(model, prediction) ==
  IF model = NullModel THEN << >> ELSE prediction

\* corners && corners.length === 4
Found(corners) == Len(corners) = 4

\* A chain that goes from the model straight to the crop.
RunChainNoHough(model, prediction, image, houghCorners) ==
  LET ml == detectCornersML(model, prediction)
  IN [tried |-> << [name |-> "ML", found |-> Found(ml),
                         decoded |-> DecodesImage(model)] >>,
      corners |-> ml,
      method |-> IF Found(ml) THEN "ML" ELSE "none",
      threw |-> FALSE]

\* The strategy chain of server.js: ML first, Hough only when ML found no
\* four corners.  detectDocumentHough starts with img.bgrToGray(), which
\* throws on an empty Mat.
RunChain(model, prediction, image, houghCorners) ==
  LET ml == detectCornersML(model, prediction)
  IN IF Found(ml)
     THEN [tried |-> << [name |-> "ML", found |-> TRUE,
                         decoded |-> DecodesImage(model)] >>,
           corners |-> ml, method |-> "ML", threw |-> FALSE]
     ELSE IF image = EmptyMat
     THEN [tried |-> << [name |-> "ML", found |-> FALSE,
                         decoded |-> DecodesImage(model)],
                        [name |-> "Hough", found |-> FALSE,
                         decoded |-> FALSE] >>,
           corners |-> << >>, method |-> "none", threw |-> TRUE]
     ELSE [tried |-> << [name |-> "ML", found |-> FALSE,
                         decoded |-> DecodesImage(model)],
                        [name |-> "Hough", found |-> Found(houghCorners),
                         decoded |-> FALSE] >>,
           corners |-> houghCorners,
           method |-> IF Found(houghCorners) THEN "Hough" ELSE "none",
           threw |-> FALSE]

\* processedImage = img.warpPerspective(M, ...)
Warped(method, corners, quad, failedBefore) ==
  [NoImage EXCEPT !.kind = "warp", !.method = method, !.corners = corners,
                  !.quad = quad, !.xformFailed = failedBefore]

\* processedImage = img.getRegion(new cv.Rect(x, y, w, h)); kind "error"
\* when the rectangle yields no image.
Cropped(image, pct, failedBefore) ==
  LET r == FallbackCrop(image.cols, image.rows, pct)
  IN [NoImage EXCEPT
        !.kind = IF RegionOk(r, image.cols, image.rows) THEN "crop" ELSE "error",
        !.rect = r, !.xformFailed = failedBefore]

\* server.js after the chain: order, transform inside try/catch, crops.
ServerRectify(image, chain, throws) ==
  IF Found(chain.corners)
  THEN LET ordered == orderPoints(chain.corners)
       IN IF throws \/ image = EmptyMat
          THEN [Cropped(image, CropPercentServer, TRUE) EXCEPT
                  !.corners = chain.corners, !.quad = ordered]
          ELSE Warped(chain.method, chain.corners, ordered, FALSE)
  ELSE Cropped(image, CropPercentServer, FALSE)

\* part_001: the largest contour at 0.02 of its perimeter; the transform is
\* not inside a try, and the points are not ordered.
LargestOutcome(image, ncontours, rows, src, throws) ==
  IF ncontours > 0 /\ rows = 4
  THEN IF throws
       THEN [NoImage EXCEPT !.kind = "error", !.xformFailed = TRUE]
       ELSE Warped("contour", src, src, FALSE)
  ELSE [NoImage EXCEPT !.kind = "orig"]

\* if (areaPercent < 15) continue
TooSmall(areaPercent) == areaPercent < AreaMin

\* A search without the check after the inner loop.
OuterBreakMissing(transformed) == FALSE

\* if (transformed) break
OuterBreak(transformed) == transformed

\* A document that puts each new page first.
AddPageFirst(doc, page) == << page >> \o doc

\* pdfDoc.addPage / page.drawImage
AddPage(doc, page) == Append(doc, page)

\* server.js and part_000 answer 400 to a request without files.
RejectsEmpty(v) == v \in {"server", "contour"}

Go(r, next) == pc' = [pc EXCEPT ![r] = next] /\ UNCHANGED res

\* catch (error) { res.status(500)... }
Fail(r, why) ==
  /\ pc' = [pc EXCEPT ![r] = "done"]
  /\ res' = [res EXCEPT ![r] = [status |-> 500, error |-> why]]

\* The contours beyond index i: sortedContours.length is i (none) or more.
ContourCounts(image, i) ==
  IF Tiny(image) \/ i >= MaxContours THEN {i} ELSE {i, i + 1}

\* The state after start-up with the requests of the set active received.
InitHandler(active) ==
  /\ variant \in {"server", "contour", "largest"}
  /\ cornerModel = loadModel(NullModel)
  /\ nfiles \in {f \in [Requests -> 0..MaxFiles] :
                   \A r \in Requests \ active : f[r] = 0}
  /\ pc = [r \in Requests |-> IF r \in active THEN "start" ELSE "absent"]
  /\ fileIndex = [r \in Requests |-> 0]
  /\ img = [r \in Requests |-> EmptyMat]
  /\ tried = [r \in Requests |-> << >>]
  /\ processedImage = [r \in Requests |-> NoImage]
  /\ pdfDoc = [r \in Requests |-> << >>]
  /\ res = [r \in Requests |-> NoResponse]
  /\ running = 0
  /\ search = NoSearch
  /\ OrderIdle
  /\ CropIdle

\* The top of the per-file loop for file k, up to the next await (server.js,
\* part_001) or to the start of the contour search (part_000).
LoopTop(r, k) ==
  /\ fileIndex' = [fileIndex EXCEPT ![r] = k]
  /\ IF k > nfiles[r]
     THEN /\ img' = [img EXCEPT ![r] = EmptyMat]
          /\ tried' = [tried EXCEPT ![r] = << >>]
          /\ processedImage' = [processedImage EXCEPT ![r] = NoImage]
          /\ Go(r, "save")
          /\ UNCHANGED << running, search >>
     ELSE \E d \in DecodeOutcomes :
            /\ img' = [img EXCEPT ![r] = d]
            /\ CASE variant = "server" ->
                      /\ tried' = [tried EXCEPT ![r] = << >>]
                      /\ processedImage' = [processedImage EXCEPT ![r] = NoImage]
                      /\ IF d = Thrown THEN Fail(r, "decode") ELSE Go(r, "ml")
                      /\ UNCHANGED << running, search >>
                 [] variant = "contour" ->
                      /\ tried' = [tried EXCEPT ![r] = << >>]
                      /\ processedImage' = [processedImage EXCEPT ![r] = NoImage]
                      /\ IF d \in {Thrown, EmptyMat}
                         THEN Fail(r, "decode") /\ UNCHANGED << running, search >>
                         ELSE /\ Go(r, "cand")
                              /\ running' = r
                              /\ search' = [NoSearch EXCEPT !.area = 100]
                 [] OTHER ->
                      /\ UNCHANGED << running, search >>
                      /\ IF d \in {Thrown, EmptyMat}
                         THEN /\ Fail(r, "decode")
                              /\ tried' = [tried EXCEPT ![r] = << >>]
                              /\ processedImage' = [processedImage EXCEPT ![r] = NoImage]
                         ELSE \E n \in 0..1, rows \in VertexCounts,
                                 src \in SrcQuads, throws \in BOOLEAN :
                                LET out == LargestOutcome(d, IF Tiny(d) THEN 0 ELSE n,
                                                          rows, src, throws)
                                IN /\ processedImage' = [processedImage EXCEPT ![r] = out]
                                   /\ tried' = [tried EXCEPT ![r] =
                                        << [name |-> "contour",
                                            found |-> out.kind # "orig",
                                            decoded |-> FALSE] >>]
                                   /\ IF out.kind = "error"
                                      THEN Fail(r, "transform")
                                      ELSE Go(r, "sharp")

\* The handler is entered: the empty-request check, then
\* await PDFDocument.create().
Start(r) ==
  /\ running = 0 /\ pc[r] = "start"
  /\ IF RejectsEmpty(variant) /\ nfiles[r] = 0
     THEN /\ pc' = [pc EXCEPT ![r] = "done"]
          /\ res' = [res EXCEPT ![r] = [status |-> 400, error |-> "nofiles"]]
     ELSE Go(r, "create")
  /\ UNCHANGED << variant, cornerModel, nfiles, fileIndex, img, tried,
                  processedImage, pdfDoc, running, search, orderVars, cropVars >>

\* PDFDocument.create() resolved: the loop starts with the first file.
Created(r) ==
  /\ running = 0 /\ pc[r] = "create"
  /\ pdfDoc' = [pdfDoc EXCEPT ![r] = << >>]
  /\ LoopTop(r, 1)
  /\ UNCHANGED << variant, cornerModel, nfiles, orderVars, cropVars >>

\* server.js: detectCornersML resolved; Hough, ordering, transform or crop,
\* imencode, then await sharp(...).
AfterML(r) ==
  /\ running = 0 /\ pc[r] = "ml" /\ variant = "server"
  /\ \E prediction \in MLPredictions,
        h \in (IF Tiny(img[r]) THEN {<< >>} ELSE HoughOutcomes),
        throws \in BOOLEAN :
       LET chain == RunChain(cornerModel, prediction, img[r], h)
           out == ServerRectify(img[r], chain, throws)
       IN /\ tried' = [tried EXCEPT ![r] = chain.tried]
          /\ processedImage' = [processedImage EXCEPT ![r] =
               IF chain.threw THEN NoImage ELSE out]
          /\ IF chain.threw THEN Fail(r, "decode")
             ELSE IF out.kind = "error" THEN Fail(r, "crop")
             ELSE Go(r, "sharp")
  /\ UNCHANGED << variant, cornerModel, nfiles, fileIndex, img, pdfDoc,
                  running, search, orderVars, cropVars >>

\* part_000: the next contour of the area-descending list.
NextCandidate(r) ==
  /\ running = r /\ pc[r] = "cand"
  /\ \E len \in ContourCounts(img[r], search.i) :
       IF search.i < Min(TopK, len)
       THEN \E a \in AreaPercents :
              /\ a <= search.area
              /\ IF TooSmall(a)
                 THEN /\ search' = [search EXCEPT !.i = @ + 1, !.area = a]
                      /\ UNCHANGED pc
                 ELSE /\ search' = [search EXCEPT !.area = a, !.eps = 1]
                      /\ pc' = [pc EXCEPT ![r] = "approx"]
       ELSE /\ pc' = [pc EXCEPT ![r] = "finish"]
            /\ search' = [search EXCEPT !.area = 0]
  /\ UNCHANGED << variant, cornerModel, nfiles, fileIndex, img, tried,
                  processedImage, pdfDoc, res, running, orderVars, cropVars >>

\* part_000: one approxPolyDP step on the current contour, and for four
\* vertices the ordering and the transform inside try/catch.
Approx(r) ==
  /\ running = r /\ pc[r] = "approx"
  /\ \E numPoints \in VertexCounts, src \in SrcQuads, throws \in BOOLEAN :
       LET here == << search.i, search.eps >>
           four == numPoints = 4
           ok == four /\ ~throws
           seen == [search EXCEPT
                      !.accepted = IF ok THEN here ELSE @,
                      !.firstOk = IF ok /\ @ = << >> THEN here ELSE @,
                      !.transformed = @ \/ ok]
           innerDone == ok \/ search.eps + 1 > EpsSteps
       IN /\ processedImage' = [processedImage EXCEPT ![r] =
               IF ok
               THEN Warped("contour", src, orderPointsCentroid(src), search.fourBefore)
               ELSE @]
          /\ IF ~innerDone
             THEN /\ search' = [seen EXCEPT !.eps = @ + 1,
                                            !.fourBefore = @ \/ four]
                  /\ UNCHANGED pc
             ELSE IF OuterBreak(seen.transformed)
             THEN /\ search' = [seen EXCEPT !.area = 0]
                  /\ pc' = [pc EXCEPT ![r] = "finish"]
             ELSE /\ search' = [seen EXCEPT !.i = @ + 1, !.eps = 0,
                                            !.fourBefore = @ \/ four]
                  /\ pc' = [pc EXCEPT ![r] = "cand"]
  /\ UNCHANGED << variant, cornerModel, nfiles, fileIndex, img, tried, pdfDoc,
                  res, running, orderVars, cropVars >>

\* part_000 after the search: the fallback crop when nothing was
\* transformed, imencode, then await sharp(...).
Finish(r) ==
  /\ running = r /\ pc[r] = "finish"
  /\ LET out == IF search.transformed THEN processedImage[r]
                ELSE Cropped(img[r], CropPercentContour, search.fourBefore)
     IN /\ processedImage' = [processedImage EXCEPT ![r] = out]
        /\ IF out.kind = "error" THEN Fail(r, "crop") ELSE Go(r, "sharp")
  /\ tried' = [tried EXCEPT ![r] =
                 << [name |-> "contour", found |-> search.transformed,
                    decoded |-> FALSE] >>]
  /\ running' = 0
  /\ search' = NoSearch
  /\ UNCHANGED << variant, cornerModel, nfiles, fileIndex, img, pdfDoc,
                  orderVars, cropVars >>

\* sharp(...).toBuffer() resolved: await pdfDoc.embedJpg(enhanced).
AfterSharp(r) ==
  /\ running = 0 /\ pc[r] = "sharp"
  /\ Go(r, "embed")
  /\ UNCHANGED << variant, cornerModel, nfiles, fileIndex, img, tried,
                  processedImage, pdfDoc, running, search, orderVars, cropVars >>

\* embedJpg resolved: the page is added and drawn, and the loop goes on
\* with the next file.
AfterEmbed(r) ==
  /\ running = 0 /\ pc[r] = "embed"
  /\ pdfDoc' = [pdfDoc EXCEPT ![r] =
       AddPage(@, [req |-> r, file |-> fileIndex[r]])]
  /\ LoopTop(r, fileIndex[r] + 1)
  /\ UNCHANGED << variant, cornerModel, nfiles, orderVars, cropVars >>

\* pdfDoc.save() resolved: the document is sent.
Saved(r) ==
  /\ running = 0 /\ pc[r] = "save"
  /\ pc' = [pc EXCEPT ![r] = "done"]
  /\ res' = [res EXCEPT ![r] = [status |-> 200, error |-> "none"]]
  /\ UNCHANGED << variant, cornerModel, nfiles, fileIndex, img, tried,
                  processedImage, pdfDoc, running, search, orderVars, cropVars >>

Next ==
  \E r \in Requests :
    \/ Start(r)
    \/ Created(r)
    \/ AfterML(r)
    \/ NextCandidate(r)
    \/ Approx(r)
    \/ Finish(r)
    \/ AfterSharp(r)
    \/ AfterEmbed(r)
    \/ Saved(r)

\* One request at a time.
Spec == InitHandler({1}) /\ [][Next]_vars

\* Two requests whose handlers interleave at their await points.
SpecConcurrent == InitHandler(Requests) /\ [][Next]_vars

\* ------------------------------------------------------------------ claims
\* The image of request r's current file has been produced.
Produced(r) == pc[r] \in {"sharp", "embed"}

Names(t) == [i \in 1..Len(t) |-> t[i].name]
IsPrefix(a, b) == Len(a) <= Len(b) /\ a = SubSeq(b, 1, Len(a))
NoneFound(t) == \A i \in 1..Len(t) : ~t[i].found

C3_WitnessCrop ==
  /\ variant = "server"
  /\ pc[1] = "sharp"
  /\ processedImage[1].kind = "crop"
  /\ ~processedImage[1].xformFailed

\* The crop fraction of the deployed handler; part_001 has none.
CropPercent(v) == IF v = "contour" THEN CropPercentContour ELSE CropPercentServer

\* C4: when detection ends with nothing found on a decodable image, the
\* image produced is the fallback crop of the original, never the original
\* itself and never an error.
C4_NotFoundGivesCrop ==
  \A r \in Requests :
    /\ (Produced(r) /\ tried[r] # << >> /\ NoneFound(tried[r])) =>
         /\ processedImage[r].kind = "crop"
         /\ processedImage[r].rect =
              FallbackCrop(img[r].cols, img[r].rows, CropPercent(variant))
    /\ res[r].error # "crop"

\* The two parts of C4 apart: the original is never passed on unmodified,
\* and the crop never ends the request in an error.
C4_NeverOriginal == \A r \in Requests : processedImage[r].kind # "orig"
C4_NeverCropError == \A r \in Requests : res[r].error # "crop"

\* C5: when the transform of a detected quad fails, the request does not
\* end in an error response, the image produced is the fallback crop and
\* processing goes on to page assembly.
C5_TransformFailureFallsBack ==
  \A r \in Requests :
    /\ res[r].error # "transform"
    /\ (Produced(r) /\ processedImage[r].xformFailed) =>
         processedImage[r].kind = "crop"

\* C5 for server.js alone, where the catch block crops.
C5_ServerFallsBack ==
  \A r \in Requests :
    variant = "server" =>
      /\ res[r].error # "transform"
      /\ (Produced(r) /\ processedImage[r].xformFailed) =>
           processedImage[r].kind = "crop"

\* C6: in a batch of several files, a file that fails to decode is fatal
\* for that file only: the request still answers with the document, which
\* holds the page of every other file.
C6_DecodeFailureSparesBatch ==
  \A r \in Requests :
    (pc[r] = "done" /\ res[r].error = "decode" /\ nfiles[r] >= 2) =>
      /\ res[r].status = 200
      /\ \A k \in (1..nfiles[r]) \ {fileIndex[r]} :
           \E i \in 1..Len(pdfDoc[r]) : pdfDoc[r][i].file = k

\* C7: at every moment the pages of a request's document are the pages of
\* its files 1, 2, ... in that order, each of its own request, and a
\* request answered with the document has one page per file.
C7_PagesInInputOrder ==
  \A r \in Requests :
    /\ Len(pdfDoc[r]) <= nfiles[r]
    /\ \A i \in 1..Len(pdfDoc[r]) : pdfDoc[r][i] = [req |-> r, file |-> i]
    /\ res[r].status = 200 => Len(pdfDoc[r]) = nfiles[r]

\* Request 1 has been answered with its two pages while request 2, started
\* before that, is between its two files.
C7_Witness ==
  /\ res[1].status = 200 /\ Len(pdfDoc[1]) = 2
  /\ nfiles[2] = 2 /\ pc[2] = "embed" /\ Len(pdfDoc[2]) = 1

AreaUpperLimit == 98

\* C10: no candidate whose area lies outside the acceptance band is ever
\* simplified.
C10_OnlyInBandSimplified ==
  \A r \in Requests :
    pc[r] = "approx" => (search.area >= AreaMin /\ search.area <= AreaUpperLimit)

\* The lower limit alone.
C10_LowerLimit ==
  \A r \in Requests : pc[r] = "approx" => search.area >= AreaMin

\* C11: every four-point set that reaches orderPoints and the computation of
\* the transform is a non-degenerate quad (four distinct points, no three
\* collinear); a degenerate result of a detector is rejected before that.
C11_OnlyNonDegenerateQuadsUsed ==
  \A r \in Requests :
    processedImage[r].corners # << >> =>
      NonDegenerate(processedImage[r].corners)

\* The same for the image that was warped through the transform.
C11_WarpedQuadNonDegenerate ==
  \A r \in Requests :
    (Produced(r) /\ processedImage[r].kind = "warp") =>
      NonDegenerate(processedImage[r].corners)

\* The four intersections detectDocumentHough returns when one segment is
\* both the top and the bottom line.
C11_HoughNeverDegenerate ==
  \A r \in Requests :
    (variant = "server" /\ processedImage[r].method = "Hough") =>
      NonDegenerate(processedImage[r].corners)

\* loadModel leaves cornerModel null: no model is ever loaded.
C12_ModelNeverLoaded == cornerModel = NullModel

\* C12: while no detection model is loaded, the model strategy of server.js
\* reports nothing found for every image, without decoding the image and
\* without ending the request, the chain goes on to the line strategy, and
\* the recorded method is never "ML".
C12_NoModelMeansNotFound ==
  \A r \in Requests :
    (variant = "server" /\ cornerModel = NullModel) =>
      /\ processedImage[r].method # "ML"
      /\ tried[r] # << >> =>
           /\ tried[r][1] = [name |-> "ML", found |-> FALSE, decoded |-> FALSE]
           /\ Len(tried[r]) = 2
           /\ tried[r][2].name = "Hough"

\* With no model loaded, the chain has gone past the model strategy and the
\* line strategy, both found nothing, and the image was cropped.
C12_Witness ==
  /\ variant = "server"
  /\ cornerModel = NullModel
  /\ pc[1] = "sharp"
  /\ Names(tried[1]) = << "ML", "Hough" >>
  /\ NoneFound(tried[1])
  /\ processedImage[1].kind = "crop"

====
